---- MODULE Spec2Model ----
(***************************************************************************)
(* Model of the Esteria SMS gateway client (src/src/esteria.rs).           *)
(*                                                                         *)
(* Strings are sequences of one-character strings, so that trimming,       *)
(* parsing and formatting are computed character by character as the Rust  *)
(* library routines do.  Option<T> is a record with a `some` field.        *)
(***************************************************************************)
EXTENDS Integers, Sequences, FiniteSets, TLC

\* ------------------------------------------------------------------ bounds

\* Number of send calls that may be in flight on the one shared client.
NumCalls == 2
\* Longest response body drawn from BodyAlphabet.
MaxBodyLen == 3
\* Longest destination number drawn from NumberAlphabet.
MaxNumLen == 3
\* Most builder calls (with_*) the caller chains on one request.
MaxBuilderCalls == 2
\* Most with_flags calls the caller chains when all 64 flag sets are tried.
MaxFlagCalls == 1

Calls == 1..NumCalls

\* ----------------------------------------------------------------- options

None == [some |-> FALSE]
Some(v) == [some |-> TRUE, val |-> v]

\* ----------------------------------------------------------------- strings

RECURSIVE StringsUpTo(_, _)
StringsUpTo(alphabet, n) ==
    IF n = 0 THEN {<< >>}
    ELSE LET shorter == StringsUpTo(alphabet, n - 1)
         IN  shorter \cup {Append(s, ch) : s \in shorter, ch \in alphabet}

Digits == <<"0", "1", "2", "3", "4", "5", "6", "7", "8", "9">>
DigitChars == {Digits[i] : i \in 1..10}
DigitValue(ch) == (CHOOSE i \in 1..10 : Digits[i] = ch) - 1

\* char::is_whitespace on the characters a body can carry.
WhiteSpace == {" ", "\n", "\t", "\r"}

\* str::trim_start_matches('+'): drops the leading '+' characters repeatedly,
\* until the string no longer starts with one.
RECURSIVE TrimStartMatchesPlus(_)
TrimStartMatchesPlus(s) ==
    IF Len(s) > 0 /\ Head(s) = "+" THEN TrimStartMatchesPlus(Tail(s)) ELSE s

RECURSIVE TrimStart(_)
TrimStart(s) ==
    IF Len(s) > 0 /\ Head(s) \in WhiteSpace THEN TrimStart(Tail(s)) ELSE s

RECURSIVE TrimEnd(_)
TrimEnd(s) ==
    IF Len(s) > 0 /\ s[Len(s)] \in WhiteSpace
    THEN TrimEnd(SubSeq(s, 1, Len(s) - 1))
    ELSE s

\* str::trim
Trim(s) == TrimEnd(TrimStart(s))

\* ------------------------------------------------------------ i32 <-> text

I32Max == 2147483647
I32Min == -I32Max - 1

\* i32::checked_mul(acc, 10): None on overflow.
CheckedMul10(acc) ==
    IF acc > I32Max \div 10 \/ acc < -(I32Max \div 10) THEN None
    ELSE Some(acc * 10)

\* i32::checked_add and i32::checked_sub of a digit: None on overflow.
CheckedAdd(acc, d) == IF acc > I32Max - d THEN None ELSE Some(acc + d)
CheckedSub(acc, d) == IF acc < I32Min + d THEN None ELSE Some(acc - d)

\* The digit loop of i32::from_str: the accumulator is multiplied by ten and
\* the digit added (subtracted for a negative number), both checked; a
\* character that is no digit, or an overflow, is an error (None).
RECURSIVE ParseDigits(_, _, _)
ParseDigits(s, acc, positive) ==
    IF Len(s) = 0 THEN Some(acc)
    ELSE IF Head(s) \notin DigitChars THEN None
    ELSE LET d == DigitValue(Head(s))
             mul == CheckedMul10(acc)
             next == IF ~mul.some THEN None
                     ELSE IF positive THEN CheckedAdd(mul.val, d)
                     ELSE CheckedSub(mul.val, d)
         IN  IF next.some THEN ParseDigits(Tail(s), next.val, positive)
             ELSE None

\* str::parse::<i32>(): an empty string and a lone sign are errors; one
\* leading '+' or '-' is accepted; the rest must be decimal digits.
ParseI32(s) ==
    IF Len(s) = 0 THEN None
    ELSE IF Len(s) = 1 /\ Head(s) \in {"+", "-"} THEN None
    ELSE IF Head(s) = "+" THEN ParseDigits(Tail(s), 0, TRUE)
    ELSE IF Head(s) = "-" THEN ParseDigits(Tail(s), 0, FALSE)
    ELSE ParseDigits(s, 0, TRUE)

RECURSIVE NatToString(_)
NatToString(n) ==
    IF n < 10 THEN <<Digits[n + 1]>>
    ELSE Append(NatToString(n \div 10), Digits[(n % 10) + 1])

\* i32::to_string
I32ToString(n) == IF n < 0 THEN <<"-">> \o NatToString(-n) ELSE NatToString(n)

\* Zero padding of chrono's numeric format items.
RECURSIVE ZeroPad(_, _)
ZeroPad(s, width) == IF Len(s) >= width THEN s ELSE ZeroPad(<<"0">> \o s, width)

\* DateTime<Utc>::format("%Y-%m-%dT%H:%M:%S"): the fields of the UTC date and
\* time, zero padded; neither the sub-second part nor an offset is written.
FormatTime(t) ==
    ZeroPad(NatToString(t.year), 4) \o <<"-">> \o
    ZeroPad(NatToString(t.month), 2) \o <<"-">> \o
    ZeroPad(NatToString(t.day), 2) \o <<"T">> \o
    ZeroPad(NatToString(t.hour), 2) \o <<":">> \o
    ZeroPad(NatToString(t.minute), 2) \o <<":">> \o
    ZeroPad(NatToString(t.second), 2)

\* ------------------------------------------------------------ request model

\* SmsFlags: a u32 bit set.
DEBUG == 1
NOLOG == 2
FLASH == 4
TEST == 8
NOBL == 16
CONVERT == 32

\* SmsFlags::empty()
EmptyFlags == 0
\* Every value of SmsFlags: the subsets of the six defined bits.
AllFlags == 0..(DEBUG + NOLOG + FLASH + TEST + NOBL + CONVERT)

\* SmsFlags::contains for a single-bit flag: the bit of `flag` is set.
Contains(flags, flag) == (flags \div flag) % 2 = 1

Encodings == {"Default", "EightBit", "Udh"}

\* SmsRequest::new: the four required fields; every option unset, no flag,
\* EightBit encoding.
NewRequest(api_key, sender, number, text) ==
    [api_key |-> api_key, sender |-> sender, number |-> number, text |-> text,
     time |-> None, dlr_url |-> None, expired |-> None, flags |-> EmptyFlags,
     user_key |-> None, encoding |-> "EightBit"]

with_time(req, time) == [req EXCEPT !.time = Some(time)]
with_dlr_url(req, dlr_url) == [req EXCEPT !.dlr_url = Some(dlr_url)]
with_expired(req, expired) == [req EXCEPT !.expired = Some(expired)]
with_flags(req, flags) == [req EXCEPT !.flags = flags]
\* Faulty variant: the user key stored in the field of the delivery report URL.
with_user_key_as_dlr(req, user_key) == [req EXCEPT !.dlr_url = Some(user_key)]
with_user_key(req, user_key) == [req EXCEPT !.user_key = Some(user_key)]
with_encoding(req, encoding) == [req EXCEPT !.encoding = encoding]

\* ------------------------------------------------------- parameter building

\* HashMap::insert: the key's value is set, replacing an earlier one.
Insert(m, k, v) == [x \in (DOMAIN m) \cup {k} |-> IF x = k THEN v ELSE m[x]]

EmptyMap == [x \in {} |-> << >>]

\* Faulty variant: str::strip_prefix('+') semantics, one '+' at most.
WireNumberStripOne(number) ==
    IF Len(number) > 0 /\ Head(number) = "+" THEN Tail(number) ELSE number

\* The number parameter of the request.
WireNumber(number) == TrimStartMatchesPlus(number)

\* The four parameters every request carries.
RequiredParams(req) ==
    LET p1 == Insert(EmptyMap, "api-key", req.api_key)
        p2 == Insert(p1, "sender", req.sender)
        p3 == Insert(p2, "number", WireNumber(req.number))
    IN  Insert(p3, "text", req.text)

\* time, dlr-url and expired, each only when the option is set.
OptionalParams(req, params) ==
    LET p1 == IF req.time.some
              THEN Insert(params, "time", FormatTime(req.time.val)) ELSE params
        p2 == IF req.dlr_url.some
              THEN Insert(p1, "dlr-url", req.dlr_url.val) ELSE p1
    IN  IF req.expired.some
        THEN Insert(p2, "expired", I32ToString(req.expired.val)) ELSE p2

\* Faulty variant: flag-nolog written with the value of the other flags.
FlagParamsNologOne(req, params) ==
    LET p1 == IF Contains(req.flags, DEBUG)
              THEN Insert(params, "flag-debug", <<"1">>) ELSE params
        p2 == IF Contains(req.flags, NOLOG)
              THEN Insert(p1, "flag-nolog", <<"1">>) ELSE p1
        p3 == IF Contains(req.flags, FLASH)
              THEN Insert(p2, "flag-flash", <<"1">>) ELSE p2
        p4 == IF Contains(req.flags, TEST)
              THEN Insert(p3, "flag-test", <<"1">>) ELSE p3
        p5 == IF Contains(req.flags, NOBL)
              THEN Insert(p4, "flag-nobl", <<"1">>) ELSE p4
    IN  IF Contains(req.flags, CONVERT)
        THEN Insert(p5, "flag-convert", <<"1">>) ELSE p5

\* One parameter per flag the request's flag set contains.
FlagParams(req, params) ==
    LET p1 == IF Contains(req.flags, DEBUG)
              THEN Insert(params, "flag-debug", <<"1">>) ELSE params
        p2 == IF Contains(req.flags, NOLOG)
              THEN Insert(p1, "flag-nolog", <<"3">>) ELSE p1
        p3 == IF Contains(req.flags, FLASH)
              THEN Insert(p2, "flag-flash", <<"1">>) ELSE p2
        p4 == IF Contains(req.flags, TEST)
              THEN Insert(p3, "flag-test", <<"1">>) ELSE p3
        p5 == IF Contains(req.flags, NOBL)
              THEN Insert(p4, "flag-nobl", <<"1">>) ELSE p4
    IN  IF Contains(req.flags, CONVERT)
        THEN Insert(p5, "flag-convert", <<"1">>) ELSE p5

UserKeyParam(req, params) ==
    IF req.user_key.some THEN Insert(params, "user-key", req.user_key.val)
    ELSE params

\* Faulty variant: the Udh arm forgets the coding parameter.
EncodingParamsUdhOnly(req, params) ==
    CASE req.encoding = "Udh" -> Insert(params, "udh", <<"1">>)
      [] req.encoding = "EightBit" -> Insert(params, "coding", <<"1">>)
      [] req.encoding = "Default" -> params

\* The match on the request's encoding.
EncodingParams(req, params) ==
    CASE req.encoding = "Udh" ->
            Insert(Insert(params, "udh", <<"1">>), "coding", <<"1">>)
      [] req.encoding = "EightBit" -> Insert(params, "coding", <<"1">>)
      [] req.encoding = "Default" -> params

\* The parameter map send_sms builds, in the order of its statements.
BuildParams(req) ==
    EncodingParams(req,
        UserKeyParam(req,
            FlagParams(req,
                OptionalParams(req, RequiredParams(req)))))

SendPath == <<"/", "s", "e", "n", "d">>

\* format!("{}/send", self.api_base_url)
SendUrl(base) == base \o SendPath

\* ---------------------------------------------------- response interpreting

\* Faulty variant: the last entry of the table is missing.
get_response_code_message_short(code) ==
    CASE code = 1 -> "system internal error"
      [] code = 2 -> "missing PARAM_NAME parameter"
      [] code = 3 -> "unable to authenticate"
      [] code = 4 -> "IP ADDRESS is not allowed"
      [] code = 5 -> "invalid SENDER parameter"
      [] code = 6 -> "SENDER is not allowed"
      [] code = 7 -> "invalid NUMBER parameter"
      [] code = 8 -> "invalid CODING parameter"
      [] code = 9 -> "unable to convert TEXT"
      [] code = 10 -> "length of UDH and TEXT too long"
      [] code = 11 -> "empty TEXT parameter"
      [] code = 12 -> "invalid TIME parameter"
      [] code = 13 -> "invalid EXPIRED parameter"
      [] code = 14 -> "invalid DLR-URL parameter"
      [] code = 15 -> "Invalid FLAG-FLASH parameter"
      [] code = 16 -> "invalid FLAG-NOLOG parameter"
      [] code = 17 -> "invalid FLAG-TEST parameter"
      [] code = 18 -> "invalid FLAG-NOBL parameter"
      [] OTHER -> "unknown error"

get_response_code_message(code) ==
    CASE code = 1 -> "system internal error"
      [] code = 2 -> "missing PARAM_NAME parameter"
      [] code = 3 -> "unable to authenticate"
      [] code = 4 -> "IP ADDRESS is not allowed"
      [] code = 5 -> "invalid SENDER parameter"
      [] code = 6 -> "SENDER is not allowed"
      [] code = 7 -> "invalid NUMBER parameter"
      [] code = 8 -> "invalid CODING parameter"
      [] code = 9 -> "unable to convert TEXT"
      [] code = 10 -> "length of UDH and TEXT too long"
      [] code = 11 -> "empty TEXT parameter"
      [] code = 12 -> "invalid TIME parameter"
      [] code = 13 -> "invalid EXPIRED parameter"
      [] code = 14 -> "invalid DLR-URL parameter"
      [] code = 15 -> "Invalid FLAG-FLASH parameter"
      [] code = 16 -> "invalid FLAG-NOLOG parameter"
      [] code = 17 -> "invalid FLAG-TEST parameter"
      [] code = 18 -> "invalid FLAG-NOBL parameter"
      [] code = 19 -> "invalid FLAG-CONVERT parameter"
      [] OTHER -> "unknown error"

\* Result<i32, SmsError>
Ok(id) == [kind |-> "Ok", id |-> id]
SendFailed(number, message) ==
    [kind |-> "SendFailed", number |-> number, message |-> message]
RequestFailed(source) == [kind |-> "RequestFailed", source |-> source]

\* A code above this value is a message id.
SuccessThreshold == 100

\* Faulty variant: the boundary value itself taken for a message id.
IsMessageIdAtLeast(code) == code >= SuccessThreshold

IsMessageId(code) == code > SuccessThreshold

\* Faulty variant: the error carries the number as it was transmitted.
FailedNumberStripped(req) == TrimStartMatchesPlus(req.number)

\* The number a SendFailed error carries.
FailedNumber(req) == req.number

\* What send_sms returns for a response body that was read.
InterpretBody(req, resp_text) ==
    LET parsed == ParseI32(Trim(resp_text))
    IN  IF parsed.some
        THEN IF IsMessageId(parsed.val) THEN Ok(parsed.val)
             ELSE SendFailed(FailedNumber(req),
                             get_response_code_message(parsed.val))
        ELSE SendFailed(FailedNumber(req), "unknown error")

\* -------------------------------------------------------------------- state

VARIABLES
    api_base_url,   \* SmsClient.api_base_url, set by SmsClient::new
    pc,             \* pc[c]: where call c stands
    request,        \* request[c]: the SmsRequest the caller of c is building
    history,        \* history[c]: the builder calls made on request[c], in order
    params,         \* params[c]: the local parameter map of send_sms
    sent,           \* sent[c]: the GET requests call c handed to the transport
    transport,      \* transport[c]: how far the round trip of c got
    resp_text,      \* resp_text[c]: the response body send_sms read
    result          \* result[c]: what send_sms returned

vars == <<api_base_url, pc, request, history, params, sent, transport,
          resp_text, result>>

\* ------------------------------------------------------------------- inputs

BaseUrls == {<<"g", "w">>, <<"g", "w", "2">>}
ApiKey == <<"k", "e", "y">>
Sender == <<"m", "e">>
Texts == {<<"h", "i">>, <<"y", "o">>}

NumberAlphabet == {"+", "1", "5"}
Numbers == StringsUpTo(NumberAlphabet, MaxNumLen)
SampleNumbers == {<<"+", "1", "5">>, <<"1", "5">>}

Times ==
    {[year |-> 2024, month |-> 1, day |-> 5, hour |-> 9, minute |-> 3,
      second |-> 7, nanos |-> 0],
     [year |-> 987, month |-> 12, day |-> 31, hour |-> 23, minute |-> 59,
      second |-> 59, nanos |-> 500000000]}
DlrUrls == {<<"u", "1">>, <<"u", "2">>}
Expireds == {-5, 0, 1440}
UserKeys == {<<"t", "1">>, <<"t", "2">>}
SampleFlags == {EmptyFlags, NOLOG, DEBUG + CONVERT}

BodyAlphabet == DigitChars \cup {"+", "-", " ", "x"}
NotableBodies ==
    {<<"2", "1", "4", "7", "4", "8", "3", "6", "4", "7">>,
     <<"2", "1", "4", "7", "4", "8", "3", "6", "4", "8">>,
     <<"-", "2", "1", "4", "7", "4", "8", "3", "6", "4", "8">>,
     <<"-", "2", "1", "4", "7", "4", "8", "3", "6", "4", "9">>,
     <<"9", "9", "9", "9", "9", "9", "9", "9", "9", "9", "9">>,
     <<"n", "o", "t", "-", "a", "-", "n", "u", "m", "b", "e", "r">>,
     <<" ", "1", "0", "1", "\n">>, <<"\t", "1", "0", "0", "\r", "\n">>,
     <<"1", " ", "0", "1">>, <<"1", "2", "3">>, <<"7">>, <<"4", "2">>,
     <<"1", "0", "0">>, <<"1", "0", "1">>, << >>}
Bodies == StringsUpTo(BodyAlphabet, MaxBodyLen) \cup NotableBodies
SampleBodies == {<<"1", "0", "1">>, <<"7">>, <<"x">>}

SendErrors == {"connect", "timeout"}
TextErrors == {"timeout", "decode"}

\* --------------------------------------------------------------------- Init

\* SmsClient::new(api_base_url); no call has started.
Init ==
    /\ api_base_url \in BaseUrls
    /\ pc = [c \in Calls |-> "idle"]
    /\ request = [c \in Calls |-> None]
    /\ history = [c \in Calls |-> << >>]
    /\ params = [c \in Calls |-> None]
    /\ sent = [c \in Calls |-> << >>]
    /\ transport = [c \in Calls |-> [stage |-> "idle", error |-> None]]
    /\ resp_text = [c \in Calls |-> None]
    /\ result = [c \in Calls |-> None]

\* ------------------------------------------------------------------ actions

\* The caller of c creates its request with SmsRequest::new.
New(c, api_key, sender, number, text) ==
    /\ pc[c] = "idle"
    /\ pc' = [pc EXCEPT ![c] = "building"]
    /\ request' = [request EXCEPT ![c] = Some(NewRequest(api_key, sender, number, text))]
    /\ UNCHANGED <<api_base_url, history, params, sent, transport, resp_text, result>>

\* One builder call on the request of c: the request is replaced by the
\* builder's value and the call is noted in the caller's history.
Builder(c, op, arg, req) ==
    /\ pc[c] = "building"
    /\ request' = [request EXCEPT ![c] = Some(req)]
    /\ history' = [history EXCEPT ![c] = Append(@, [op |-> op, arg |-> arg])]
    /\ UNCHANGED <<api_base_url, pc, params, sent, transport, resp_text, result>>

WithTime(c, time) ==
    Builder(c, "with_time", time, with_time(request[c].val, time))

WithDlrUrl(c, dlr_url) ==
    Builder(c, "with_dlr_url", dlr_url, with_dlr_url(request[c].val, dlr_url))

WithExpired(c, expired) ==
    Builder(c, "with_expired", expired, with_expired(request[c].val, expired))

WithFlags(c, flags) ==
    Builder(c, "with_flags", flags, with_flags(request[c].val, flags))

WithUserKey(c, user_key) ==
    Builder(c, "with_user_key", user_key, with_user_key(request[c].val, user_key))

WithEncoding(c, encoding) ==
    Builder(c, "with_encoding", encoding, with_encoding(request[c].val, encoding))

\* Faulty variant: the parameter map is a field shared by the calls.
SendSmsBuildShared(c) ==
    /\ pc[c] = "building"
    /\ pc' = [pc EXCEPT ![c] = "built"]
    /\ params' = [d \in Calls |-> Some(BuildParams(request[c].val))]
    /\ UNCHANGED <<api_base_url, request, history, sent, transport, resp_text, result>>

\* send_sms, first part: the parameter map is built from the request.
SendSmsBuild(c) ==
    /\ pc[c] = "building"
    /\ pc' = [pc EXCEPT ![c] = "built"]
    /\ params' = [params EXCEPT ![c] = Some(BuildParams(request[c].val))]
    /\ UNCHANGED <<api_base_url, request, history, sent, transport, resp_text, result>>

\* send_sms: the GET to {api_base_url}/send with the parameters as its query
\* is handed to the transport; the call awaits the response.
SendSmsGet(c) ==
    /\ pc[c] = "built"
    /\ pc' = [pc EXCEPT ![c] = "awaitResponse"]
    /\ sent' = [sent EXCEPT ![c] =
                  Append(@, [url |-> SendUrl(api_base_url), query |-> params[c].val])]
    /\ transport' = [transport EXCEPT ![c] = [stage |-> "requested", error |-> None]]
    /\ UNCHANGED <<api_base_url, request, history, params, resp_text, result>>

\* send().await yields a response; the call goes on to await its body.
ResponseArrives(c) ==
    /\ pc[c] = "awaitResponse"
    /\ pc' = [pc EXCEPT ![c] = "awaitBody"]
    /\ transport' = [transport EXCEPT ![c] = [stage |-> "responded", error |-> None]]
    /\ UNCHANGED <<api_base_url, request, history, params, sent, resp_text, result>>

\* Faulty variant: a failed round trip is retried.
SendFailsRetry(c, e) ==
    /\ pc[c] = "awaitResponse"
    /\ sent' = [sent EXCEPT ![c] =
                  Append(@, [url |-> SendUrl(api_base_url), query |-> params[c].val])]
    /\ transport' = [transport EXCEPT ![c] = [stage |-> "requested", error |-> None]]
    /\ UNCHANGED <<api_base_url, pc, request, history, params, resp_text, result>>

\* send().await yields a transport error: `?` returns it as RequestFailed.
SendFails(c, e) ==
    /\ pc[c] = "awaitResponse"
    /\ pc' = [pc EXCEPT ![c] = "done"]
    /\ transport' = [transport EXCEPT ![c] = [stage |-> "sendFailed", error |-> Some(e)]]
    /\ result' = [result EXCEPT ![c] = Some(RequestFailed(e))]
    /\ UNCHANGED <<api_base_url, request, history, params, sent, resp_text>>

\* text().await yields the body: it is trimmed, parsed and interpreted, and
\* send_sms returns.
BodyArrives(c, body) ==
    /\ pc[c] = "awaitBody"
    /\ pc' = [pc EXCEPT ![c] = "done"]
    /\ transport' = [transport EXCEPT ![c] = [stage |-> "delivered", error |-> None]]
    /\ resp_text' = [resp_text EXCEPT ![c] = Some(body)]
    /\ result' = [result EXCEPT ![c] = Some(InterpretBody(request[c].val, body))]
    /\ UNCHANGED <<api_base_url, request, history, params, sent>>

\* Faulty variant: a body that could not be read is reported like an
\* unparseable one.
BodyFailsAsUnknown(c, e) ==
    /\ pc[c] = "awaitBody"
    /\ pc' = [pc EXCEPT ![c] = "done"]
    /\ transport' = [transport EXCEPT ![c] = [stage |-> "textFailed", error |-> Some(e)]]
    /\ result' = [result EXCEPT ![c] =
                    Some(SendFailed(request[c].val.number, "unknown error"))]
    /\ UNCHANGED <<api_base_url, request, history, params, sent, resp_text>>

\* text().await yields a transport error: `?` returns it as RequestFailed.
BodyFails(c, e) ==
    /\ pc[c] = "awaitBody"
    /\ pc' = [pc EXCEPT ![c] = "done"]
    /\ transport' = [transport EXCEPT ![c] = [stage |-> "textFailed", error |-> Some(e)]]
    /\ result' = [result EXCEPT ![c] = Some(RequestFailed(e))]
    /\ UNCHANGED <<api_base_url, request, history, params, sent, resp_text>>

\* ----------------------------------------------------------- specifications

\* Any number of calls in flight on the shared client, each caller chaining
\* at most one with_encoding call on its request.
Next ==
    \E c \in Calls :
        \/ \E number \in SampleNumbers : New(c, ApiKey, Sender, number, <<"h", "i">>)
        \/ \E encoding \in Encodings : history[c] = << >> /\ WithEncoding(c, encoding)
        \/ SendSmsBuild(c)
        \/ SendSmsGet(c)
        \/ ResponseArrives(c)
        \/ SendFails(c, "connect")
        \/ \E body \in {<<"1", "0", "1">>, <<"7">>} : BodyArrives(c, body)
        \/ BodyFails(c, "decode")

Spec == Init /\ [][Next]_vars

\* One call; the caller chains up to MaxBuilderCalls builder calls of any kind.
NextRequest ==
    \/ \E number \in SampleNumbers, text \in Texts : New(1, ApiKey, Sender, number, text)
    \/ /\ Len(history[1]) < MaxBuilderCalls
       /\ \/ \E time \in Times : WithTime(1, time)
          \/ \E dlr_url \in DlrUrls : WithDlrUrl(1, dlr_url)
          \/ \E expired \in Expireds : WithExpired(1, expired)
          \/ \E flags \in SampleFlags : WithFlags(1, flags)
          \/ \E user_key \in UserKeys : WithUserKey(1, user_key)
          \/ \E encoding \in Encodings : WithEncoding(1, encoding)
    \/ SendSmsBuild(1)
    \/ SendSmsGet(1)
    \/ ResponseArrives(1)
    \/ \E e \in SendErrors : SendFails(1, e)
    \/ \E body \in SampleBodies : BodyArrives(1, body)
    \/ \E e \in TextErrors : BodyFails(1, e)

SpecRequest == Init /\ [][NextRequest]_vars

\* One call; the caller sets any of the 64 flag sets.
NextFlags ==
    \/ New(1, ApiKey, Sender, <<"1", "5">>, <<"h", "i">>)
    \/ /\ Len(history[1]) < MaxFlagCalls
       /\ \E flags \in AllFlags : WithFlags(1, flags)
    \/ SendSmsBuild(1)
    \/ SendSmsGet(1)
    \/ ResponseArrives(1)
    \/ \E e \in SendErrors : SendFails(1, e)
    \/ \E body \in SampleBodies : BodyArrives(1, body)
    \/ \E e \in TextErrors : BodyFails(1, e)

SpecFlags == Init /\ [][NextFlags]_vars

\* One call; any destination number over NumberAlphabet.
NextNumber ==
    \/ \E number \in Numbers : New(1, ApiKey, Sender, number, <<"h", "i">>)
    \/ SendSmsBuild(1)
    \/ SendSmsGet(1)
    \/ ResponseArrives(1)
    \/ \E e \in SendErrors : SendFails(1, e)
    \/ \E body \in NotableBodies : BodyArrives(1, body)
    \/ \E e \in TextErrors : BodyFails(1, e)

SpecNumber == Init /\ [][NextNumber]_vars

\* One call; any response body over BodyAlphabet, and the notable ones.
NextResponse ==
    \/ \E number \in SampleNumbers : New(1, ApiKey, Sender, number, <<"h", "i">>)
    \/ SendSmsBuild(1)
    \/ SendSmsGet(1)
    \/ ResponseArrives(1)
    \/ \E e \in SendErrors : SendFails(1, e)
    \/ /\ pc[1] = "awaitBody"   \* read first, so that Bodies is enumerated only here
       /\ \E body \in Bodies : BodyArrives(1, body)
    \/ \E e \in TextErrors : BodyFails(1, e)

SpecResponse == Init /\ [][NextResponse]_vars

\* ------------------------------------------------------------------- claims

\* The calls whose response body was read.
BodyRead == {c \in Calls : resp_text[c].some}

\* C1: for every response body the transport delivers, send_sms returns
\* success with id v exactly when the trimmed body parses as a signed integer
\* v > 100; every parsed v <= 100 gives SendFailed; "100" fails, "101"
\* succeeds with id 101, and no returned id is <= 100.
C1_SuccessIffAbove100 ==
    \A c \in BodyRead :
        LET body == resp_text[c].val
            v == ParseI32(Trim(body))
            r == result[c].val
        IN  /\ result[c].some
            /\ (r.kind = "Ok") <=> (v.some /\ v.val > 100)
            /\ r.kind = "Ok" => (r.id = v.val /\ r.id > 100)
            /\ (v.some /\ v.val <= 100) => r.kind = "SendFailed"
            /\ body = <<"1", "0", "0">> => r.kind = "SendFailed"
            /\ body = <<"1", "0", "1">> => r = Ok(101)

\* C1 witness: the body "101" was read and the call returned id 101.
C1_Witness ==
    \E c \in BodyRead :
        resp_text[c].val = <<"1", "0", "1">> /\ result[c].val = Ok(101)

\* C2: a transport failure, at the GET or at the body read, ends the call
\* with RequestFailed wrapping that transport error, never with SendFailed;
\* SendFailed is returned only after a body was fully received.
C2_TransportFailureIsRequestFailed ==
    \A c \in Calls :
        /\ transport[c].stage \in {"sendFailed", "textFailed"} =>
              /\ pc[c] = "done"
              /\ result[c] = Some(RequestFailed(transport[c].error.val))
        /\ (result[c].some /\ result[c].val.kind = "SendFailed") =>
              (transport[c].stage = "delivered" /\ resp_text[c].some)
        /\ (result[c].some /\ result[c].val.kind = "RequestFailed") =>
              /\ transport[c].stage \in {"sendFailed", "textFailed"}
              /\ ~resp_text[c].some

\* C2 witness: the response arrived, then reading its body failed, and the
\* call returned RequestFailed with that error.
C2_Witness ==
    \E c \in Calls :
        /\ transport[c].stage = "textFailed"
        /\ result[c] = Some(RequestFailed("decode"))

\* The messages of the gateway's failure codes 1..19.
CodeMessages ==
    <<"system internal error", "missing PARAM_NAME parameter",
      "unable to authenticate", "IP ADDRESS is not allowed",
      "invalid SENDER parameter", "SENDER is not allowed",
      "invalid NUMBER parameter", "invalid CODING parameter",
      "unable to convert TEXT", "length of UDH and TEXT too long",
      "empty TEXT parameter", "invalid TIME parameter",
      "invalid EXPIRED parameter", "invalid DLR-URL parameter",
      "Invalid FLAG-FLASH parameter", "invalid FLAG-NOLOG parameter",
      "invalid FLAG-TEST parameter", "invalid FLAG-NOBL parameter",
      "invalid FLAG-CONVERT parameter">>

\* C6: the message of a SendFailed result is a fixed function of the body:
\* the table message for a parsed code in 1..19 (7 gives "invalid NUMBER
\* parameter"), and "unknown error" for every other parsed code <= 100 and
\* for every body that does not parse as a signed 32-bit integer.
C6_FailureMessage ==
    \A c \in BodyRead :
        LET body == resp_text[c].val
            v == ParseI32(Trim(body))
            r == result[c].val
        IN  r.kind = "SendFailed" =>
              /\ (v.some /\ v.val \in 1..19) => r.message = CodeMessages[v.val]
              /\ (v.some /\ v.val <= 100 /\ v.val \notin 1..19) =>
                    r.message = "unknown error"
              /\ ~v.some => r.message = "unknown error"
              /\ body = <<"7">> => r.message = "invalid NUMBER parameter"
              /\ body \in {<<"4", "2">>, <<"0">>, <<"-", "3">>, <<"2", "0">>,
                           <<"1", "0", "0">>, << >>,
                           <<"9", "9", "9", "9", "9", "9", "9", "9", "9", "9", "9">>}
                    => r.message = "unknown error"

\* C6 witness: the body "19", the last code of the table, was read and the
\* call failed with that code's message.
C6_Witness ==
    \E c \in BodyRead :
        /\ resp_text[c].val = <<"1", "9">>
        /\ result[c].val.kind = "SendFailed"
        /\ result[c].val.message = "invalid FLAG-CONVERT parameter"

\* The calls whose parameter map was built.
ParamsBuilt == {c \in Calls : params[c].some}

\* The calls whose GET was handed to the transport.
Requested == {c \in Calls : Len(sent[c]) > 0}

RequiredKeys == {"api-key", "sender", "number", "text"}
OptionKeys == {"time", "dlr-url", "expired", "user-key"}
EncodingKeys == {"udh", "coding"}

\* The wire parameter of each flag and the bit it stands for.
FlagKeyBit ==
    [k \in {"flag-debug", "flag-nolog", "flag-flash", "flag-test", "flag-nobl",
            "flag-convert"} |->
        CASE k = "flag-debug" -> 1
          [] k = "flag-nolog" -> 2
          [] k = "flag-flash" -> 4
          [] k = "flag-test" -> 8
          [] k = "flag-nobl" -> 16
          [] k = "flag-convert" -> 32]
FlagKeys == DOMAIN FlagKeyBit

RECURSIVE BitsOf(_)
BitsOf(keys) ==
    IF keys = {} THEN 0
    ELSE LET k == CHOOSE x \in keys : TRUE
         IN  FlagKeyBit[k] + BitsOf(keys \ {k})

\* The builder calls of one kind in a history, and the argument of the last.
CallsOf(h, op) == {i \in DOMAIN h : h[i].op = op}
LastArg(h, op) ==
    h[CHOOSE i \in CallsOf(h, op) : \A j \in CallsOf(h, op) : j <= i].arg

\* The flag set the caller asked for: that of the last with_flags call, and
\* the empty set when there was none.
RequestedFlags(h) ==
    IF CallsOf(h, "with_flags") = {} THEN 0 ELSE LastArg(h, "with_flags")

\* C3: for each of the 64 flag combinations the built parameter set holds
\* exactly one entry per set flag, with value "3" for flag-nolog and "1" for
\* every other flag, and no flag-* entry for an unset flag.
C3_FlagParameters ==
    \A c \in ParamsBuilt :
        LET p == params[c].val
            present == (DOMAIN p) \ (RequiredKeys \cup OptionKeys \cup EncodingKeys)
        IN  /\ present \subseteq FlagKeys
            /\ BitsOf(present) = request[c].val.flags
            /\ request[c].val.flags = RequestedFlags(history[c])
            /\ \A k \in present :
                  p[k] = IF k = "flag-nolog" THEN <<"3">> ELSE <<"1">>

\* C3 witness: the caller set NOLOG and TEST alone and the parameters were
\* built with flag-nolog=3 and flag-test=1.
C3_Witness ==
    \E c \in ParamsBuilt :
        /\ history[c] = <<[op |-> "with_flags", arg |-> 10]>>
        /\ (DOMAIN params[c].val) \cap FlagKeys = {"flag-nolog", "flag-test"}
        /\ params[c].val["flag-nolog"] = <<"3">>

\* The encoding the caller chose: that of the last with_encoding call, and
\* EightBit when there was none.
ChosenEncoding(h) ==
    IF CallsOf(h, "with_encoding") = {} THEN "EightBit"
    ELSE LastArg(h, "with_encoding")

\* A parameter map without its udh and coding entries.
WithoutEncodingKeys(p) == [k \in (DOMAIN p) \ EncodingKeys |-> p[k]]

\* C4: the encoding decides udh and coding and nothing else: Default adds
\* neither, EightBit only coding=1, Udh both udh=1 and coding=1; without a
\* with_encoding call the encoding is EightBit, and the last call decides.
C4_EncodingParameters ==
    \A c \in ParamsBuilt :
        LET p == params[c].val
            enc == ChosenEncoding(history[c])
            given == [k \in (DOMAIN p) \cap EncodingKeys |-> p[k]]
        IN  /\ enc = "Default" => given = EmptyMap
            /\ enc = "EightBit" => given = [k \in {"coding"} |-> <<"1">>]
            /\ enc = "Udh" => given = [k \in {"udh", "coding"} |-> <<"1">>]
            /\ \A other \in Encodings :
                  WithoutEncodingKeys(BuildParams(with_encoding(request[c].val, other)))
                      = WithoutEncodingKeys(p)

\* C4 witness: the caller chose Default and then Udh, and the parameters
\* were built with both udh and coding.
C4_Witness ==
    \E c \in ParamsBuilt :
        /\ history[c] = <<[op |-> "with_encoding", arg |-> "Default"],
                          [op |-> "with_encoding", arg |-> "Udh"]>>
        /\ EncodingKeys \subseteq DOMAIN params[c].val

\* The number parameter call c transmitted.
SentNumber(c) == sent[c][1].query["number"]

\* The statement of C5 as claimed: exactly one leading '+' is removed, so of
\* several leading '+' characters only the first goes.
C5_ExactlyOnePlusRemoved ==
    \A c \in Requested :
        LET number == request[c].val.number
        IN  SentNumber(c) =
              IF Len(number) > 0 /\ Head(number) = "+" THEN Tail(number)
              ELSE number

\* C5, amended: the number parameter is the request's number with all of its
\* leading '+' characters removed, and the number itself when it has none:
\* what was cut off is a run of '+' and what is left does not begin with '+'.
C5_LeadingPlusesRemoved ==
    \A c \in Requested :
        LET number == request[c].val.number
            wire == SentNumber(c)
            cut == Len(number) - Len(wire)
        IN  /\ cut >= 0
            /\ wire = SubSeq(number, cut + 1, Len(number))
            /\ \A i \in 1..cut : number[i] = "+"
            /\ Len(wire) > 0 => Head(wire) # "+"
            /\ number = <<"+", "1", "5">> => wire = <<"1", "5">>
            /\ number = <<"1", "5">> => wire = <<"1", "5">>

\* C5 witness: a number with two leading '+' was transmitted without both.
C5_Witness ==
    \E c \in Requested :
        /\ request[c].val.number = <<"+", "+", "1">>
        /\ SentNumber(c) = <<"1">>

\* C10: every SendFailed result, from a failure code or from an unparseable
\* body, carries the number exactly as the caller gave it; for a number that
\* begins with '+' it differs from the number parameter that was transmitted.
C10_FailureCarriesCallerNumber ==
    \A c \in Calls :
        (result[c].some /\ result[c].val.kind = "SendFailed") =>
            LET number == request[c].val.number
            IN  /\ result[c].val.number = number
                /\ (Len(number) > 0 /\ Head(number) = "+") =>
                      result[c].val.number # SentNumber(c)

\* C10 witness: the number "+15" was transmitted as "15", the body did not
\* parse, and the error carries "+15".
C10_Witness ==
    \E c \in BodyRead :
        /\ resp_text[c].val = <<"n", "o", "t", "-", "a", "-", "n", "u", "m", "b", "e", "r">>
        /\ SentNumber(c) = <<"1", "5">>
        /\ result[c].val = SendFailed(<<"+", "1", "5">>, "unknown error")

\* The builder call that sets each optional parameter.
OptionSetter ==
    [k \in OptionKeys |->
        CASE k = "time" -> "with_time"
          [] k = "dlr-url" -> "with_dlr_url"
          [] k = "expired" -> "with_expired"
          [] k = "user-key" -> "with_user_key"]

\* The text of each sample time and expiry on the wire.
TimeText(time) ==
    IF time.year = 2024
    THEN <<"2", "0", "2", "4", "-", "0", "1", "-", "0", "5", "T",
           "0", "9", ":", "0", "3", ":", "0", "7">>
    ELSE <<"0", "9", "8", "7", "-", "1", "2", "-", "3", "1", "T",
           "2", "3", ":", "5", "9", ":", "5", "9">>
ExpiredText(expired) ==
    CASE expired = -5 -> <<"-", "5">>
      [] expired = 0 -> <<"0">>
      [] expired = 1440 -> <<"1", "4", "4", "0">>

\* The value an optional parameter has on the wire for a builder argument.
OptionText(k, arg) ==
    CASE k = "time" -> TimeText(arg)
      [] k = "expired" -> ExpiredText(arg)
      [] OTHER -> arg

\* C9: the keys transmitted are decided by the request: api-key, sender,
\* number and text always; time, dlr-url, expired and user-key each exactly
\* when its builder was called, with the value of the last call; beyond flag
\* and encoding parameters nothing else; a request from new() alone sends
\* exactly api-key, sender, number, text and coding=1.
C9_TransmittedKeys ==
    \A c \in Requested :
        LET q == sent[c][1].query
            h == history[c]
            req == request[c].val
        IN  /\ Len(sent[c]) = 1
            /\ RequiredKeys \subseteq DOMAIN q
            /\ q["api-key"] = req.api_key /\ q["sender"] = req.sender
            /\ q["text"] = req.text
            /\ \A k \in OptionKeys :
                  /\ (k \in DOMAIN q) <=> (CallsOf(h, OptionSetter[k]) # {})
                  /\ k \in DOMAIN q =>
                        q[k] = OptionText(k, LastArg(h, OptionSetter[k]))
            /\ DOMAIN q \subseteq
                  RequiredKeys \cup OptionKeys \cup FlagKeys \cup EncodingKeys
            /\ h = << >> =>
                  /\ DOMAIN q = RequiredKeys \cup {"coding"}
                  /\ q["coding"] = <<"1">>

\* C9 witness: the caller set a user key and then another, and the request
\* went out with the second and without time, dlr-url and expired.
C9_Witness ==
    \E c \in Requested :
        /\ history[c] = <<[op |-> "with_user_key", arg |-> <<"t", "1">>],
                          [op |-> "with_user_key", arg |-> <<"t", "2">>]>>
        /\ (DOMAIN sent[c][1].query) \cap OptionKeys = {"user-key"}
        /\ sent[c][1].query["user-key"] = <<"t", "2">>

\* C7: a call issues exactly one GET, to {api_base_url}/send, with the
\* parameter set already fully built, and ends with exactly one outcome: a
\* message id, SendFailed or RequestFailed; no second request follows a
\* failed round trip or a failure code.
C7_OneRoundTripOneOutcome ==
    \A c \in Calls :
        /\ Len(sent[c]) <= 1
        /\ pc[c] \in {"awaitResponse", "awaitBody", "done"} <=> Len(sent[c]) = 1
        /\ Len(sent[c]) = 1 =>
              /\ sent[c][1].url = api_base_url \o <<"/", "s", "e", "n", "d">>
              /\ params[c].some
              /\ sent[c][1].query = params[c].val
              /\ RequiredKeys \subseteq DOMAIN sent[c][1].query
        /\ pc[c] = "done" <=> result[c].some
        /\ result[c].some =>
              /\ result[c].val.kind \in {"Ok", "SendFailed", "RequestFailed"}
              /\ Len(sent[c]) = 1

\* C7 witness: a call whose round trip failed is over with RequestFailed and
\* the one request it made.
C7_Witness ==
    \E c \in Calls :
        /\ pc[c] = "done"
        /\ result[c] = Some(RequestFailed("connect"))
        /\ Len(sent[c]) = 1

\* The state that belongs to call c.
Local(c) ==
    <<pc[c], request[c], history[c], params[c], sent[c], transport[c],
      resp_text[c], result[c]>>

\* Each call's parameters and result are those of its own request and body.
OwnRequestOwnResult ==
    \A c \in Calls :
        /\ params[c].some =>
              (request[c].some /\ params[c].val = BuildParams(request[c].val))
        /\ Len(sent[c]) > 0 => sent[c][1].query = BuildParams(request[c].val)
        /\ resp_text[c].some =>
              result[c] = Some(InterpretBody(request[c].val, resp_text[c].val))

\* A step changes the state of one call at most, and never the base URL.
OneCallPerStep ==
    /\ api_base_url' = api_base_url
    /\ \A c, d \in Calls : (c # d /\ Local(c)' # Local(c)) => Local(d)' = Local(d)

\* C8: concurrent calls on one client do not interfere: under every
\* interleaving of their steps a call's transmitted parameters depend on its
\* own request only and its result on its own response only, and no send
\* changes the client's base URL.
C8_NoInterference == []OwnRequestOwnResult /\ [][OneCallPerStep]_vars

\* C8 witness: two calls with different numbers are both over, one with a
\* message id and one with a failure code.
C8_Witness ==
    \E c, d \in BodyRead :
        /\ request[c].val.number # request[d].val.number
        /\ sent[c][1].query # sent[d][1].query
        /\ result[c].val.kind = "Ok"
        /\ result[d].val.kind = "SendFailed"

====
